---- MODULE Spec2Model ----
(***************************************************************************)
(* Changelog-Generator: the version-inference and changelog-merge engine.  *)
(*                                                                         *)
(* src/src/changelogger.py  class Changelogger (the current engine)        *)
(* src/src/main.py          the script form of the same engine             *)
(*                                                                         *)
(* Text is modelled as text: a Python str is a TLA+ string, a line break   *)
(* is the character "\n", and every conversion (lower, splitlines, join,   *)
(* int, str, isoformat, fromisoformat, the regular expressions) is         *)
(* computed character by character.  A datetime is the tuple               *)
(* <<year, month, day, hour, minute, second>>; Python's None is the string *)
(* None for a str result and the empty tuple for a datetime result.        *)
(***************************************************************************)
EXTENDS Integers, Sequences, FiniteSets, TLC

VARIABLES
    pc,                 \* position of the run, or the function a unit state applied
    dry_run,            \* Changelogger.__dry_run
    release,            \* Changelogger.__release
    use_commits,        \* Changelogger.__use_commits
    use_pull_requests,  \* Changelogger.__use_pull_requests
    entry_position,     \* Changelogger.__entry_position
    file,               \* the changelog file on the host: [exists, text]
    host_commits,       \* what repository.get_commits returns
    host_pulls,         \* what repository.get_pulls returns
    published,          \* history: <<new_version, datetime>> of each run that published
    changelog,          \* local: the document text
    previous_version,   \* local: version string of the release marker
    previous_date,      \* local: datetime of the release marker
    entries,            \* local: the collected items (additions)
    new_version,        \* local: the bumper's result
    new_entry,          \* local: the rendered entry
    updated_changelog,  \* local: the merged document
    calls,              \* collaborator calls made by the current run, in order
    result,             \* what the run returned
    runs,               \* publishing runs completed so far
    now                 \* the host clock (index into Clock)

vars == <<pc, dry_run, release, use_commits, use_pull_requests, entry_position,
          file, host_commits, host_pulls, published, changelog, previous_version, previous_date,
          entries, new_version, new_entry, updated_changelog, calls, result,
          runs, now>>

(***************************************************************************)
(* Python values and str methods                                           *)
(***************************************************************************)
None == "None"
NoDate == <<>>

DIGITS == "0123456789"
UPPER == "ABCDEFGHIJKLMNOPQRSTUVWXYZ"
LOWER == "abcdefghijklmnopqrstuvwxyz"

\* s[i-1] of Python, "" when out of range
At(s, i) == IF i \in 1..Len(s) THEN SubSeq(s, i, i) ELSE ""

\* s[i-1:] of Python
From(s, i) == IF i > Len(s) THEN "" ELSE SubSeq(s, i, Len(s))

startswith(s, p) == Len(s) >= Len(p) /\ SubSeq(s, 1, Len(p)) = p

\* p in s
Contains(s, p) == \E i \in 1..(Len(s) - Len(p) + 1) : SubSeq(s, i, i + Len(p) - 1) = p

IndexIn(alphabet, c) == CHOOSE i \in 1..Len(alphabet) : At(alphabet, i) = c

IsDigit(c) == Len(c) = 1 /\ Contains(DIGITS, c)

\* \s of the re module
IsSpace(c) == c \in {" ", "\t", "\n", "\r", "\f"}

lowerChar(c) == IF Contains(UPPER, c) THEN At(LOWER, IndexIn(UPPER, c)) ELSE c

RECURSIVE lower(_)
lower(s) == IF s = "" THEN "" ELSE lowerChar(At(s, 1)) \o lower(From(s, 2))

\* index of the first sep at or after i, Len(s)+1 when there is none
RECURSIVE Find(_, _, _)
Find(s, sep, i) ==
    IF i > Len(s) THEN Len(s) + 1
    ELSE IF At(s, i) = sep THEN i
    ELSE Find(s, sep, i + 1)

\* s.split(sep) for a one-character sep
RECURSIVE split(_, _)
split(s, sep) ==
    LET j == Find(s, sep, 1)
    IN IF j > Len(s) THEN <<s>>
       ELSE <<SubSeq(s, 1, j - 1)>> \o split(From(s, j + 1), sep)

\* s.splitlines(): a final line break opens no further line
RECURSIVE splitlines(_)
splitlines(s) ==
    IF s = "" THEN <<>>
    ELSE LET j == Find(s, "\n", 1)
         IN IF j > Len(s) THEN <<s>>
            ELSE <<SubSeq(s, 1, j - 1)>> \o splitlines(From(s, j + 1))

\* sep.join(parts)
RECURSIVE join(_, _)
join(sep, parts) ==
    IF parts = <<>> THEN ""
    ELSE IF Len(parts) = 1 THEN parts[1]
    ELSE parts[1] \o sep \o join(sep, Tail(parts))

\* s.strip("v")
RECURSIVE stripV(_)
stripV(s) ==
    IF At(s, 1) = "v" THEN stripV(From(s, 2))
    ELSE IF At(s, Len(s)) = "v" THEN stripV(SubSeq(s, 1, Len(s) - 1))
    ELSE s

IsDigits(s) == s # "" /\ \A i \in 1..Len(s) : IsDigit(At(s, i))

\* int(s) for a digit string
RECURSIVE int(_)
int(s) ==
    IF Len(s) = 1 THEN IndexIn(DIGITS, s) - 1
    ELSE 10 * int(SubSeq(s, 1, Len(s) - 1)) + (IndexIn(DIGITS, At(s, Len(s))) - 1)

\* str(n) for n >= 0
RECURSIVE str(_)
str(n) == IF n < 10 THEN At(DIGITS, n + 1) ELSE str(n \div 10) \o At(DIGITS, (n % 10) + 1)

\* insert x before index i (0-based, as list.insert)
insert(lines, i, x) == SubSeq(lines, 1, i) \o <<x>> \o SubSeq(lines, i + 1, Len(lines))

(***************************************************************************)
(* Change items                                                            *)
(***************************************************************************)
Commit(message) == [kind |-> "Commit", message |-> message]
PullRequest(title, body) == [kind |-> "PullRequest", title |-> title, body |-> body]

\* Changelogger.ChangelogEntryType
BREAKING_CHANGE == "breaking change"
FEATURE == <<"feature", "feat">>
FIX == "fix"

\* ChangelogEntryType.all(): dir() order, lists flattened
ChangelogEntryType_all == <<BREAKING_CHANGE>> \o FEATURE \o <<FIX>>

(***************************************************************************)
(* Changelogger._bump_version                                              *)
(***************************************************************************)
NoBump == [major_bump |-> FALSE, minor_bump |-> FALSE, patch_bump |-> FALSE]

\* the text _bump_version classifies: title and body of a pull request, the
\* message of a commit, lower-cased; any other item is skipped
bump_content(item) ==
    IF item.kind = "PullRequest" THEN lower(item.title) \o "\n" \o lower(item.body)
    ELSE lower(item.message)

\* one pass of the loop body: the first keyword test that succeeds sets its flag
bump_item(item, flags) ==
    IF item.kind \notin {"PullRequest", "Commit"} THEN flags
    ELSE LET content == bump_content(item)
         IN IF Contains(content, BREAKING_CHANGE) THEN [flags EXCEPT !.major_bump = TRUE]
            ELSE IF \E k \in 1..Len(FEATURE) : Contains(content, FEATURE[k])
                 THEN [flags EXCEPT !.minor_bump = TRUE]
            ELSE IF Contains(content, FIX) THEN [flags EXCEPT !.patch_bump = TRUE]
            ELSE flags

\* for item in additions
RECURSIVE bump_flags(_, _)
bump_flags(additions, flags) ==
    IF additions = <<>> THEN flags
    ELSE bump_flags(Tail(additions), bump_item(Head(additions), flags))

\* f"v{major}.{minor}.{patch}"
format_version(major, minor, patch) ==
    "v" \o str(major) \o "." \o str(minor) \o "." \o str(patch)

\* a bumper that adds up the bumps of every category present
bump_counters_cumulative(flags, major, minor, patch) ==
    <<major + (IF flags.major_bump THEN 1 ELSE 0),
      minor + (IF flags.minor_bump THEN 1 ELSE 0),
      patch + (IF flags.patch_bump THEN 1 ELSE 0)>>

\* the counters after the if/elif chain of lines 248-253: one counter is
\* incremented and the others are left as they are
bump_counters(flags, major, minor, patch) ==
    IF flags.major_bump THEN <<major + 1, minor, patch>>
    ELSE IF flags.minor_bump THEN <<major, minor + 1, patch>>
    ELSE <<major, minor, patch + 1>>

bump_version(version, additions) ==
    LET stripped == IF startswith(version, "v") THEN From(version, 2) ELSE version
        parts == split(stripped, ".")
        flags == bump_flags(additions, NoBump)
    IN IF Len(parts) # 3 \/ \E k \in 1..Len(parts) : ~IsDigits(parts[k])
       THEN "ValueError"
       ELSE IF flags = NoBump
       THEN stripped                       \* line 256: the prefix is already cut
       ELSE LET c == bump_counters(flags, int(parts[1]), int(parts[2]), int(parts[3]))
            IN format_version(c[1], c[2], c[3])

(***************************************************************************)
(* main.calculate_new_version                                              *)
(***************************************************************************)
calc_content(item) ==
    IF item.kind = "PullRequest" THEN lower(item.title \o "\n" \o item.body)
    ELSE lower(item.message)

calc_item(item, flags) ==
    IF item.kind \notin {"PullRequest", "Commit"} THEN flags
    ELSE LET content == calc_content(item)
         IN IF Contains(content, "breaking change") THEN [flags EXCEPT !.major_bump = TRUE]
            ELSE IF Contains(content, "feat") \/ Contains(content, "feature")
                 THEN [flags EXCEPT !.minor_bump = TRUE]
            ELSE IF Contains(content, "fix") THEN [flags EXCEPT !.patch_bump = TRUE]
            ELSE flags

RECURSIVE calc_flags(_, _)
calc_flags(items, flags) ==
    IF items = <<>> THEN flags
    ELSE calc_flags(Tail(items), calc_item(Head(items), flags))

\* lines 112-119
calc_result(flags, current_version, major_num, minor_num, patch_num) ==
    IF flags.major_bump THEN format_version(major_num + 1, 0, 0)
    ELSE IF flags.minor_bump THEN format_version(major_num, minor_num + 1, 0)
    ELSE IF flags.patch_bump THEN format_version(major_num, minor_num, patch_num + 1)
    ELSE current_version

calculate_new_version(current_version, items) ==
    LET flags == calc_flags(items, NoBump)
        parts == split(stripV(current_version), ".")
    IN IF ~startswith(current_version, "v")
       THEN calc_result(flags, current_version, 0, 0, 0)
       ELSE IF Len(parts) # 3 \/ \E k \in 1..Len(parts) : ~IsDigits(parts[k])
       THEN None                           \* "Invalid version format."
       ELSE calc_result(flags, current_version, int(parts[1]), int(parts[2]), int(parts[3]))

(***************************************************************************)
(* datetime                                                                *)
(***************************************************************************)
\* zero-padded decimal of width w
RECURSIVE pad(_, _)
pad(n, w) == IF Len(str(n)) >= w THEN str(n) ELSE "0" \o pad(n, w - 1) 

IsLeap(y) == (y % 4 = 0 /\ y % 100 # 0) \/ y % 400 = 0

DaysInMonth(y, m) ==
    IF m = 2 THEN (IF IsLeap(y) THEN 29 ELSE 28)
    ELSE IF m \in {4, 6, 9, 11} THEN 30 ELSE 31

\* dt.isoformat(timespec='seconds')
isoformat(dt) ==
    pad(dt[1], 4) \o "-" \o pad(dt[2], 2) \o "-" \o pad(dt[3], 2) \o "T"
    \o pad(dt[4], 2) \o ":" \o pad(dt[5], 2) \o ":" \o pad(dt[6], 2)

\* the fields of a text of the shape dddd-dd-ddTdd:dd:dd
iso_fields(t) ==
    <<int(SubSeq(t, 1, 4)), int(SubSeq(t, 6, 7)), int(SubSeq(t, 9, 10)),
      int(SubSeq(t, 12, 13)), int(SubSeq(t, 15, 16)), int(SubSeq(t, 18, 19))>>

\* the constructor's range checks; a date outside them raises ValueError
valid_date(y, m, d) == y >= 1 /\ m \in 1..12 /\ d \in 1..DaysInMonth(y, m)

valid_datetime(f) == valid_date(f[1], f[2], f[3]) /\ f[4] \in 0..23 /\ f[5] \in 0..59 /\ f[6] \in 0..59

\* datetime.fromisoformat(t), NoDate standing for the ValueError it raises
fromisoformat(t) == IF valid_datetime(iso_fields(t)) THEN iso_fields(t) ELSE NoDate

(***************************************************************************)
(* Changelogger.changelog_regex and _get_previous_release_info             *)
(***************************************************************************)
\* \s* from index i: the index of the first character that is no white space
RECURSIVE skip_space(_, _)
skip_space(s, i) == IF IsSpace(At(s, i)) THEN skip_space(s, i + 1) ELSE i

\* \d* from index i
RECURSIVE skip_digits(_, _)
skip_digits(s, i) == IF IsDigit(At(s, i)) THEN skip_digits(s, i + 1) ELSE i

\* \d{4}-\d{2}-\d{2} at index i
date_at(s, i) ==
    /\ \A k \in {0, 1, 2, 3, 5, 6, 8, 9} : IsDigit(At(s, i + k))
    /\ At(s, i + 4) = "-" /\ At(s, i + 7) = "-"

\* \d{4}-\d{2}-\d{2}T\d{2}:\d{2}:\d{2} at index i
timestamp_at(s, i) ==
    /\ date_at(s, i)
    /\ At(s, i + 10) = "T"
    /\ \A k \in {11, 12, 14, 15, 17, 18} : IsDigit(At(s, i + k))
    /\ At(s, i + 13) = ":" /\ At(s, i + 16) = ":"

\* a header pattern that takes a date-only stamp as well, read as midnight
changelog_regex_match_any_stamp(line) ==
    IF ~startswith(line, "##") THEN <<>>
    ELSE LET v == skip_space(line, 3)
             a == skip_digits(line, v + 1)
             b == skip_digits(line, a + 1)
             c == skip_digits(line, b + 1)
             h == skip_space(line, c)
             p == skip_space(line, h + 1)
         IN IF ~(/\ At(line, v) = "v"
                 /\ a > v + 1 /\ At(line, a) = "."
                 /\ b > a + 1 /\ At(line, b) = "."
                 /\ c > b + 1
                 /\ At(line, h) = "-"
                 /\ At(line, p) = "(")
            THEN <<>>
            ELSE IF timestamp_at(line, p + 1) /\ At(line, p + 20) = ")"
            THEN <<SubSeq(line, v, c - 1), SubSeq(line, p + 1, p + 19)>>
            ELSE IF date_at(line, p + 1) /\ At(line, p + 11) = ")"
            THEN <<SubSeq(line, v, c - 1), SubSeq(line, p + 1, p + 10) \o "T00:00:00">>
            ELSE <<>>

\* changelog_regex.match(line): <<group(1), group(2)>>, or <<>> for no match
changelog_regex_match(line) ==
    IF ~startswith(line, "##") THEN <<>>
    ELSE LET v == skip_space(line, 3)
             a == skip_digits(line, v + 1)
             b == skip_digits(line, a + 1)
             c == skip_digits(line, b + 1)
             h == skip_space(line, c)
             p == skip_space(line, h + 1)
         IN IF /\ At(line, v) = "v"
               /\ a > v + 1 /\ At(line, a) = "."
               /\ b > a + 1 /\ At(line, b) = "."
               /\ c > b + 1
               /\ At(line, h) = "-"
               /\ At(line, p) = "("
               /\ timestamp_at(line, p + 1)
               /\ At(line, p + 20) = ")"
            THEN <<SubSeq(line, v, c - 1), SubSeq(line, p + 1, p + 19)>>
            ELSE <<>>

\* re.search(r'\((timestamp)\)', line): group(1) of the leftmost match, or ""
search_timestamp(line) ==
    LET hits == {i \in 1..Len(line) :
                    At(line, i) = "(" /\ timestamp_at(line, i + 1) /\ At(line, i + 20) = ")"}
    IN IF hits = {} THEN ""
       ELSE LET i == CHOOSE j \in hits : \A k \in hits : j <= k
            IN SubSeq(line, i + 1, i + 19)

\* a scan in which the last matching header line wins
RECURSIVE last_release(_)
last_release(lines) ==
    IF lines = <<>> THEN <<>>
    ELSE LET m == changelog_regex_match(lines[Len(lines)])
         IN IF m # <<>> THEN m ELSE last_release(SubSeq(lines, 1, Len(lines) - 1))

\* the first loop (lines 117-124): the groups of the first header line the
\* pattern matches, <<>> when the loop ends without a match
RECURSIVE first_release(_)
first_release(lines) ==
    IF lines = <<>> THEN <<>>
    ELSE LET m == IF startswith(Head(lines), "##")
                  THEN changelog_regex_match(Head(lines)) ELSE <<>>
         IN IF m # <<>> THEN m ELSE first_release(Tail(lines))

is_header(line) == startswith(line, "##")

\* the second loop (lines 129-135): the date text of the first header line that
\* holds the phrase and a parenthesized timestamp, "" when there is none
RECURSIVE initial_release(_)
initial_release(header_lines) ==
    IF header_lines = <<>> THEN ""
    ELSE LET line == Head(header_lines)
             found == IF Contains(lower(line), "[initial release]")
                      THEN search_timestamp(line) ELSE ""
         IN IF found # "" THEN found ELSE initial_release(Tail(header_lines))

\* <<version, date>>; <<None, NoDate>> is (None, None).  A ValueError of
\* fromisoformat is caught by the except clause, which returns (None, None).
get_previous_release_info(text) ==
    LET lines == splitlines(text)
        m == first_release(lines)
        d == initial_release(SelectSeq(lines, is_header))
    IN IF m # <<>>
       THEN (IF fromisoformat(m[2]) = NoDate THEN <<None, NoDate>>
             ELSE <<m[1], fromisoformat(m[2])>>)
       ELSE IF d # ""
       THEN (IF fromisoformat(d) = NoDate THEN <<None, NoDate>>
             ELSE <<"v0.0.0", fromisoformat(d)>>)
       ELSE <<None, NoDate>>

(***************************************************************************)
(* main.parse_release_line and main.get_latest_release                     *)
(***************************************************************************)
\* [\d\.]* from index i
RECURSIVE skip_digits_dots(_, _)
skip_digits_dots(s, i) ==
    IF IsDigit(At(s, i)) \/ At(s, i) = "." THEN skip_digits_dots(s, i + 1) ELSE i

\* $ at index i: the end of the text, or its final line break
at_end(s, i) == i = Len(s) + 1 \/ (i = Len(s) /\ At(s, i) = "\n")

\* datetime.strptime(t, '%Y-%m-%d'), NoDate standing for the ValueError it raises
strptime_date(t) ==
    LET y == int(SubSeq(t, 1, 4))
        m == int(SubSeq(t, 6, 7))
        d == int(SubSeq(t, 9, 10))
    IN IF valid_date(y, m, d) THEN <<y, m, d, 0, 0, 0>> ELSE NoDate

\* <<version, release_date>>, <<>> for None, <<"ValueError">> when strptime raises
parse_release_line(line) ==
    IF ~startswith(line, "##") THEN <<>>
    ELSE LET v == skip_space(line, 3)
             e == skip_digits_dots(line, v + 1)
             p == skip_space(line, e)
         IN IF /\ At(line, v) = "v"
               /\ e > v + 1
               /\ At(line, p) = "("
               /\ date_at(line, p + 1)
               /\ At(line, p + 11) = ")"
               /\ at_end(line, p + 12)
            THEN (IF strptime_date(SubSeq(line, p + 1, p + 10)) = NoDate
                  THEN <<"ValueError">>
                  ELSE <<SubSeq(line, v, e - 1), strptime_date(SubSeq(line, p + 1, p + 10))>>)
            ELSE <<>>

\* s.replace("##", "")
RECURSIVE remove_marks(_)
remove_marks(s) ==
    IF s = "" THEN ""
    ELSE IF startswith(s, "##") THEN remove_marks(From(s, 3))
    ELSE At(s, 1) \o remove_marks(From(s, 2))

\* s.strip()
RECURSIVE strip(_)
strip(s) ==
    IF IsSpace(At(s, 1)) THEN strip(From(s, 2))
    ELSE IF IsSpace(At(s, Len(s))) THEN strip(SubSeq(s, 1, Len(s) - 1))
    ELSE s

datetime_min == <<1, 1, 1, 0, 0, 0>>

\* <<latest_version, latest_release_date>>, <<>> for None.  The loop returns at
\* the first header line, parsed or not; an exception (no file, a ValueError
\* of strptime) is caught and gives None.
get_latest_release(f) ==
    IF ~f.exists THEN <<>>
    ELSE LET header_lines == SelectSeq(splitlines(f.text), is_header)
         IN IF header_lines = <<>> THEN <<>>
            ELSE LET line == header_lines[1]
                     parsed == parse_release_line(line)
                 IN IF parsed = <<"ValueError">> THEN <<>>
                    ELSE IF parsed # <<>> THEN parsed
                    ELSE <<strip(remove_marks(line)), datetime_min>>

(***************************************************************************)
(* Changelogger._create_new_entry                                          *)
(***************************************************************************)
\* the list-item line of one addition; an item of another type adds no line
entry_item_lines(item) ==
    IF item.kind = "PullRequest" THEN <<"- " \o item.title>>
    ELSE IF item.kind = "Commit" THEN <<"- " \o splitlines(item.message)[1]>>
    ELSE <<>>

RECURSIVE entry_items(_)
entry_items(additions) ==
    IF additions = <<>> THEN <<>>
    ELSE entry_item_lines(Head(additions)) \o entry_items(Tail(additions))

\* f"## v{new_version} - ({custom_date})"
entry_header(version, custom_date) == "## v" \o version \o " - (" \o custom_date \o ")"

create_new_entry(version, additions, custom_date) ==
    join("\n", <<entry_header(version, custom_date)>> \o entry_items(additions))

(***************************************************************************)
(* Changelogger._create_updated_changelog                                  *)
(***************************************************************************)
ABOVE_PREVIOUS == "above_previous"
BELOW_PREVIOUS == "below_previous"
TOP == "top"
BOTTOM == "bottom"
ChangelogEntryPosition == {ABOVE_PREVIOUS, BELOW_PREVIOUS, TOP, BOTTOM}

\* 0-based index of the first line starting with "##", -1 when there is none
first_header(lines) ==
    LET hits == {i \in 1..Len(lines) : startswith(lines[i], "##")}
    IN IF hits = {} THEN -1 ELSE (CHOOSE j \in hits : \A k \in hits : j <= k) - 1

merge_top(entry, text) == entry \o text

merge_bottom(entry, text) == text \o entry

merge_above(entry, text) ==
    LET lines == splitlines(text)
        i == first_header(lines)
    IN IF i >= 0 THEN join("\n", insert(lines, i, entry))
       ELSE entry \o "\n" \o text

merge_below(entry, text) ==
    LET lines == splitlines(text)
        i == first_header(lines)
    IN IF i >= 0 THEN join("\n", insert(lines, i + 1, entry))
       ELSE text \o entry

\* case _: the error is logged and the document returned as it was
create_updated_changelog(entry, text, position) ==
    IF position = TOP THEN merge_top(entry, text)
    ELSE IF position = BOTTOM THEN merge_bottom(entry, text)
    ELSE IF position = ABOVE_PREVIOUS THEN merge_above(entry, text)
    ELSE IF position = BELOW_PREVIOUS THEN merge_below(entry, text)
    ELSE text

\* Changelogger._new_changelog_text
new_changelog_text(dt) ==
    "# Changelog\n\n## [initial release] - (" \o isoformat(dt) \o ")\n\n- Initial release\n"

(***************************************************************************)
(* The host clock: datetime.now() at tick n                                *)
(***************************************************************************)
Clock(n) == <<2023 + n, 1 + ((5 * n) % 12), 1 + ((9 * n) % 28),
              (7 * n) % 24, (13 * n) % 60, (59 * n) % 60>>

(***************************************************************************)
(* Bounds and input universes                                              *)
(***************************************************************************)
MaxItems == 3       \* longest list of additions handed to a bumper
MaxClock == 2       \* ticks of the clock a unit state may draw
MaxLines == 3       \* longest document handed to a parser
MaxDocLines == 3    \* longest document handed to the merger
MaxRuns == 2        \* runs of create_new_changelog_entry on one repository

BaseVersions == {"v0.0.0", "v1.2.3", "v1.9.9"}

ItemPool == {
    Commit("fix: null check"),
    Commit("feature: add cache"),
    Commit("breaking change: drop API"),
    Commit("docs: readme"),
    PullRequest("Feat: dark mode", "also a fix for the menu") }

ListsOver(pool, n) == UNION {[1..k -> pool] : k \in 0..n}

\* every local of a run before the run sets it
Unset == ""

NoFile == [exists |-> FALSE, text |-> ""]

UnitConfig ==
    /\ dry_run = FALSE /\ release = FALSE
    /\ use_commits = TRUE /\ use_pull_requests = TRUE
    /\ host_commits = <<>> /\ host_pulls = <<>> /\ published = <<>>
    /\ calls = <<>> /\ result = Unset /\ runs = 0

(***************************************************************************)
(* SpecBump: the bumpers, the renderer and the parser as functions         *)
(***************************************************************************)
InitBump ==
    /\ UnitConfig
    /\ pc = "unit"
    /\ entry_position = ABOVE_PREVIOUS
    /\ file = NoFile
    /\ changelog = Unset
    /\ previous_version \in BaseVersions
    /\ previous_date = NoDate
    /\ entries \in ListsOver(ItemPool, MaxItems)
    /\ new_version = Unset /\ new_entry = Unset /\ updated_changelog = Unset
    /\ now = 0

UnitBumpVersion ==
    /\ pc = "unit"
    /\ new_version' = bump_version(previous_version, entries)
    /\ pc' = "_bump_version"
    /\ UNCHANGED <<dry_run, release, use_commits, use_pull_requests, entry_position,
                   file, host_commits, host_pulls, published, changelog, previous_version, previous_date,
                   entries, new_entry, updated_changelog, calls, result, runs, now>>

UnitCalculateNewVersion ==
    /\ pc = "unit"
    /\ new_version' = calculate_new_version(previous_version, entries)
    /\ pc' = "calculate_new_version"
    /\ UNCHANGED <<dry_run, release, use_commits, use_pull_requests, entry_position,
                   file, host_commits, host_pulls, published, changelog, previous_version, previous_date,
                   entries, new_entry, updated_changelog, calls, result, runs, now>>

\* _create_new_entry on the bumper's result, custom_date left to its default
UnitCreateNewEntry ==
    /\ pc = "_bump_version"
    /\ now' \in 1..MaxClock
    /\ new_entry' = create_new_entry(new_version, entries, isoformat(Clock(now')))
    /\ pc' = "_create_new_entry"
    /\ UNCHANGED <<dry_run, release, use_commits, use_pull_requests, entry_position,
                   file, host_commits, host_pulls, published, changelog, previous_version, previous_date,
                   entries, new_version, updated_changelog, calls, result, runs>>

\* _get_previous_release_info on the rendered entry
UnitReadBack ==
    /\ pc = "_create_new_entry"
    /\ changelog' = new_entry
    /\ previous_version' = get_previous_release_info(new_entry)[1]
    /\ previous_date' = get_previous_release_info(new_entry)[2]
    /\ pc' = "read_back"
    /\ UNCHANGED <<dry_run, release, use_commits, use_pull_requests, entry_position,
                   file, host_commits, host_pulls, published, entries, new_version, new_entry,
                   updated_changelog, calls, result, runs, now>>

NextBump == UnitBumpVersion \/ UnitCalculateNewVersion \/ UnitCreateNewEntry \/ UnitReadBack

SpecBump == InitBump /\ [][NextBump]_vars

(***************************************************************************)
(* Properties of the bumpers (SpecBump)                                    *)
(***************************************************************************)
\* the text of an item that carries its signal words
ItemText(item) ==
    IF item.kind = "PullRequest" THEN lower(item.title \o "\n" \o item.body)
    ELSE lower(item.message)

\* BumpCategory as a rank: BREAKING 3 > FEATURE 2 > FIX 1 > NONE 0
Category(item) ==
    LET text == ItemText(item)
    IN IF Contains(text, "breaking change") THEN 3
       ELSE IF Contains(text, "feat") THEN 2
       ELSE IF Contains(text, "fix") THEN 1
       ELSE 0

\* the highest category present over all items, whatever their number and order
Highest(items) ==
    LET present == {Category(items[k]) : k \in 1..Len(items)}
    IN IF 3 \in present THEN 3
       ELSE IF 2 \in present THEN 2
       ELSE IF 1 \in present THEN 1
       ELSE 0

CountOf(items, rank) == Cardinality({k \in 1..Len(items) : Category(items[k]) = rank})

\* <<X, Y, Z>> of a text vX.Y.Z, <<>> for any other text
Triple(v) ==
    LET parts == split(From(v, 2), ".")
    IN IF At(v, 1) = "v" /\ Len(parts) = 3 /\ \A k \in 1..3 : IsDigits(parts[k])
       THEN <<int(parts[1]), int(parts[2]), int(parts[3])>>
       ELSE <<>>

Bumped == pc \in {"_bump_version", "calculate_new_version"}

\* C1: whenever some item carries a signal, each bumper returns a version in
\* which exactly the counter of the highest category present is one higher
\* than in the base version and no other counter is higher than it was,
\* whatever the number and the order of the items of each category.
C1_BumpPrecedence ==
    Bumped =>
        LET old == Triple(previous_version)
            new == Triple(new_version)
            h == Highest(entries)
        IN h > 0 =>
              /\ new # <<>>
              /\ h = 3 => new[1] = old[1] + 1 /\ new[2] <= old[2] /\ new[3] <= old[3]
              /\ h = 2 => new[1] = old[1] /\ new[2] = old[2] + 1 /\ new[3] <= old[3]
              /\ h = 1 => new[1] = old[1] /\ new[2] = old[2] /\ new[3] = old[3] + 1

\* C1 witness: {FIX, FIX, FEATURE} on v1.2.3 bumped minor once, patch not at all
C1_Witness ==
    /\ pc = "_bump_version"
    /\ previous_version = "v1.2.3"
    /\ CountOf(entries, 1) = 2 /\ CountOf(entries, 2) = 1
    /\ Category(entries[3]) = 2
    /\ new_version = "v1.3.3"

\* C2 as claimed: a BREAKING item gives v(X+1).0.0 and, without one, a FEATURE
\* item gives vX.(Y+1).0, from either bumper.
C2_BumpResets ==
    Bumped =>
        LET old == Triple(previous_version)
            h == Highest(entries)
        IN /\ h = 3 => new_version = format_version(old[1] + 1, 0, 0)
           /\ h = 2 => new_version = format_version(old[1], old[2] + 1, 0)

\* C3 as claimed: with no item, or only NONE items, each bumper returns the
\* very text vMAJOR.MINOR.PATCH it was given.
C3_NoBumpUnchanged ==
    Bumped /\ Highest(entries) = 0 => new_version = previous_version

\* <<X, Y, Z>> of the bumper's result, which carries the v prefix or not
ResultTriple(v) == IF At(v, 1) = "v" THEN Triple(v) ELSE Triple("v" \o v)

\* C5 as claimed: for the version (X,Y,Z) the bumper produced and the
\* timestamp T, the header the renderer writes is ## vX.Y.Z - (T), and the
\* parser reads exactly vX.Y.Z and T back from it.
C5_HeaderRoundTrip ==
    pc = "read_back" =>
        LET t == ResultTriple(new_version)
            v == format_version(t[1], t[2], t[3])
        IN /\ splitlines(new_entry)[1] = "## " \o v \o " - (" \o isoformat(Clock(now)) \o ")"
           /\ previous_version = v
           /\ previous_date = Clock(now)


(***************************************************************************)
(* SpecParse: the release-marker parsers as functions of a document        *)
(***************************************************************************)
LinePool == {
    "# Changelog",
    "## v1.2.3 - (2024-01-01T00:00:00)",
    "## v0.9.10 - (2023-12-31T23:59:59)",
    "## Unreleased",
    "## [Initial Release] - (2023-06-01T12:00:00)",
    "## [initial release]",
    "## v2.0.0 - (2024-02-30T00:00:00)",
    "## v1.0.0 (2021-12-31)" }

\* the text of a document with the given lines, each ended by a line break
text_of(lines) == IF lines = <<>> THEN "" ELSE join("\n", lines) \o "\n"

InitParse ==
    /\ UnitConfig
    /\ pc = "unit"
    /\ entry_position = ABOVE_PREVIOUS
    /\ \E lines \in ListsOver(LinePool, MaxLines) :
          /\ file = [exists |-> TRUE, text |-> text_of(lines)]
          /\ changelog = text_of(lines)
    /\ previous_version = Unset /\ previous_date = NoDate
    /\ entries = <<>>
    /\ new_version = Unset /\ new_entry = Unset /\ updated_changelog = Unset
    /\ now = 0

UnitGetPreviousReleaseInfo ==
    /\ pc = "unit"
    /\ previous_version' = get_previous_release_info(changelog)[1]
    /\ previous_date' = get_previous_release_info(changelog)[2]
    /\ pc' = "_get_previous_release_info"
    /\ UNCHANGED <<dry_run, release, use_commits, use_pull_requests, entry_position,
                   file, host_commits, host_pulls, published, changelog, entries, new_version, new_entry,
                   updated_changelog, calls, result, runs, now>>

UnitGetLatestRelease ==
    /\ pc = "unit"
    /\ LET info == get_latest_release(file)
       IN /\ previous_version' = IF info = <<>> THEN None ELSE info[1]
          /\ previous_date' = IF info = <<>> THEN NoDate ELSE info[2]
    /\ pc' = "get_latest_release"
    /\ UNCHANGED <<dry_run, release, use_commits, use_pull_requests, entry_position,
                   file, host_commits, host_pulls, published, changelog, entries, new_version, new_entry,
                   updated_changelog, calls, result, runs, now>>

NextParse == UnitGetPreviousReleaseInfo \/ UnitGetLatestRelease

SpecParse == InitParse /\ [][NextParse]_vars

(***************************************************************************)
(* Properties of the parsers (SpecParse)                                   *)
(***************************************************************************)
Least(S) == CHOOSE j \in S : \A k \in S : j <= k

Parsed == pc \in {"_get_previous_release_info", "get_latest_release"}

\* the release-header pattern of the parser that acted: None for no match
HeaderMatch(line) ==
    IF pc = "get_latest_release"
    THEN (IF Len(parse_release_line(line)) = 2
          THEN <<parse_release_line(line)[1], parse_release_line(line)[2]>> ELSE <<>>)
    ELSE (IF changelog_regex_match(line) # <<>>
          THEN <<changelog_regex_match(line)[1], fromisoformat(changelog_regex_match(line)[2])>>
          ELSE <<>>)

\* the initial-release header lines that carry a parenthesized date
InitialLines(lines) ==
    {i \in 1..Len(lines) :
        /\ startswith(lines[i], "##")
        /\ Contains(lower(lines[i]), "[initial release]")
        /\ search_timestamp(lines[i]) # ""}

\* C4 as claimed: either parser returns the version and timestamp of the first
\* line matching its release-header pattern, skipping earlier ## lines that do
\* not match; with no matching line it reports v0.0.0 and the date of an
\* initial-release header; with neither it reports not found.
C4_FirstMatchOrInitial ==
    Parsed =>
        LET lines == splitlines(changelog)
            M == {i \in 1..Len(lines) : HeaderMatch(lines[i]) # <<>>}
            I == InitialLines(lines)
        IN IF M # {}
           THEN <<previous_version, previous_date>> = HeaderMatch(lines[Least(M)])
           ELSE IF I # {}
           THEN /\ previous_version = "v0.0.0"
                /\ previous_date = fromisoformat(search_timestamp(lines[Least(I)]))
           ELSE previous_version = None /\ previous_date = NoDate

\* C4 amended, Changelogger._get_previous_release_info: the first line the
\* pattern matches decides, whatever ## lines come before it: its version and
\* timestamp are returned, or not found when its timestamp is no calendar
\* date-time; only with no matching line does the first initial-release header
\* carrying a parenthesized timestamp decide, as v0.0.0 with that timestamp;
\* with neither the result is not found.
C4_ChangeloggerSelection ==
    pc = "_get_previous_release_info" =>
        LET lines == splitlines(changelog)
            M == {i \in 1..Len(lines) : changelog_regex_match(lines[i]) # <<>>}
            I == InitialLines(lines)
            chosen == IF M # {} THEN changelog_regex_match(lines[Least(M)])
                      ELSE IF I # {} THEN <<"v0.0.0", search_timestamp(lines[Least(I)])>>
                      ELSE <<>>
        IN IF chosen # <<>> /\ valid_datetime(iso_fields(chosen[2]))
           THEN previous_version = chosen[1] /\ previous_date = iso_fields(chosen[2])
           ELSE previous_version = None /\ previous_date = NoDate

\* C4 amended, main.get_latest_release: the first ## line decides alone: its
\* version and date when it matches ## v<digits and dots> (YYYY-MM-DD) with a
\* calendar date, not found when that date is no calendar date, and otherwise
\* the header's own text as the version with the minimal date; later lines are
\* never read, and without a ## line the result is not found.
C4_MainSelection ==
    pc = "get_latest_release" =>
        LET lines == splitlines(changelog)
            H == {i \in 1..Len(lines) : startswith(lines[i], "##")}
        IN IF H = {} THEN previous_version = None /\ previous_date = NoDate
           ELSE LET line == lines[Least(H)]
                    p == parse_release_line(line)
                IN IF Len(p) = 2 THEN previous_version = p[1] /\ previous_date = p[2]
                   ELSE IF Len(p) = 1 THEN previous_version = None /\ previous_date = NoDate
                   ELSE previous_version = strip(remove_marks(line)) /\ previous_date = datetime_min

C4_MarkerSelection == C4_ChangeloggerSelection /\ C4_MainSelection

\* C4 witness: a document whose first ## line does not match and whose second
\* does: the Changelogger parser skipped the first and returned the second
C4_Witness ==
    /\ pc = "_get_previous_release_info"
    /\ LET lines == splitlines(changelog)
       IN /\ Len(lines) >= 3
          /\ lines[1] = "## Unreleased"
          /\ lines[2] = "## v0.9.10 - (2023-12-31T23:59:59)"
          /\ lines[3] = "## v1.2.3 - (2024-01-01T00:00:00)"
    /\ previous_version = "v0.9.10"
    /\ previous_date = <<2023, 12, 31, 23, 59, 59>>

(***************************************************************************)
(* SpecMerge: _create_updated_changelog as a function                      *)
(***************************************************************************)
DocLinePool == {"# Changelog", "", "## v1.0.0 - (2024-01-01T00:00:00)", "- prev"}

\* documents whose last line is ended by a line break, and documents whose
\* last line is not
MergeDocuments ==
    {text_of(lines) : lines \in ListsOver(DocLinePool, MaxDocLines)}
    \cup {join("\n", lines) : lines \in ListsOver(DocLinePool, MaxDocLines)}

MergeEntries ==
    {create_new_entry("1.0.1", <<>>, "2024-06-01T10:00:00"),
     create_new_entry("1.0.1", <<Commit("fix: null check")>>, "2024-06-01T10:00:00")}

UnknownPosition == "middle"

InitMerge ==
    /\ UnitConfig
    /\ pc = "unit"
    /\ entry_position \in ChangelogEntryPosition \cup {UnknownPosition}
    /\ file = NoFile
    /\ changelog \in MergeDocuments
    /\ previous_version = Unset /\ previous_date = NoDate
    /\ entries = <<>>
    /\ new_version = Unset
    /\ new_entry \in MergeEntries
    /\ updated_changelog = Unset
    /\ now = 0

UnitCreateUpdatedChangelog ==
    /\ pc = "unit"
    /\ updated_changelog' = create_updated_changelog(new_entry, changelog, entry_position)
    /\ pc' = "_create_updated_changelog"
    /\ UNCHANGED <<dry_run, release, use_commits, use_pull_requests, entry_position,
                   file, host_commits, host_pulls, published, changelog, previous_version, previous_date,
                   entries, new_version, new_entry, calls, result, runs, now>>

NextMerge == UnitCreateUpdatedChangelog

SpecMerge == InitMerge /\ [][NextMerge]_vars

(***************************************************************************)
(* Properties of the merger (SpecMerge)                                    *)
(***************************************************************************)
Merged == pc = "_create_updated_changelog"

\* the document's lines with the entry's lines as one block after line k
Spliced(doc, ent, k) == SubSeq(doc, 1, k) \o ent \o SubSeq(doc, k + 1, Len(doc))

\* C7 as claimed: for each of the four positions the output's lines are the
\* document's lines, unchanged and in order, with the entry's lines as one
\* block of separate lines among them (so the line counts add up); the block
\* sits right before the first ## line for ABOVE_PREVIOUS and right after it
\* for BELOW_PREVIOUS.
C7_PureSplice ==
    Merged /\ entry_position \in ChangelogEntryPosition =>
        LET doc == splitlines(changelog)
            ent == splitlines(new_entry)
            out == splitlines(updated_changelog)
            h == first_header(doc)
        IN /\ \E k \in 0..Len(doc) : out = Spliced(doc, ent, k)
           /\ Len(out) = Len(doc) + Len(ent)
           /\ entry_position = ABOVE_PREVIOUS /\ h >= 0 => out = Spliced(doc, ent, h)
           /\ entry_position = BELOW_PREVIOUS /\ h >= 0 => out = Spliced(doc, ent, h + 1)

\* C8 as claimed: on a document without a ## line ABOVE_PREVIOUS gives the
\* output text of TOP (the entry, then the document) and BELOW_PREVIOUS the
\* output text of BOTTOM (the document, then the entry).
C8_FallbackEquivalence ==
    Merged /\ first_header(splitlines(changelog)) < 0 =>
        /\ entry_position = ABOVE_PREVIOUS => updated_changelog = new_entry \o changelog
        /\ entry_position = BELOW_PREVIOUS => updated_changelog = changelog \o new_entry

(***************************************************************************)
(* Changelogger._get_commits and _get_pull_requests                        *)
(***************************************************************************)
\* the inner loop of lines 163-166: the commit is appended once for every
\* keyword of ChangelogEntryType.all() its lower-cased message contains
RECURSIVE found_for(_, _)
found_for(commit, types) ==
    IF types = <<>> THEN <<>>
    ELSE (IF Contains(lower(commit.message), Head(types)) THEN <<commit>> ELSE <<>>)
         \o found_for(commit, Tail(types))

RECURSIVE get_commits(_)
get_commits(commits) ==
    IF commits = <<>> THEN <<>>
    ELSE found_for(Head(commits), ChangelogEntryType_all) \o get_commits(Tail(commits))

\* The loop body raises TypeError for the first pull request the host returns:
\* merged_at is compared with until, a str, and ChangelogEntryType, a plain
\* class, is iterated.  The except clause logs it and found_prs, still empty,
\* is returned.
get_pull_requests(pulls) == IF pulls = <<>> THEN <<>> ELSE <<>>

(***************************************************************************)
(* Spec: runs of Changelogger.create_new_changelog_entry on one repository *)
(***************************************************************************)
Call(name, ok) == [name |-> name, ok |-> ok]

InitialFiles == {
    NoFile,
    [exists |-> TRUE, text |-> "# Changelog\n"],
    [exists |-> TRUE, text |-> "# Changelog\n\n## v1.0.0 - (2024-01-01T00:00:00)\n- prev\n"],
    [exists |-> TRUE, text |-> new_changelog_text(Clock(0))] }

\* what the host may answer to get_commits(since, until, sha)
HostHistories == {
    <<>>,
    <<Commit("fix: null check")>>,
    <<Commit("breaking change: drop API"), Commit("docs: readme")>>,
    <<Commit("Fix typo\n\nlong text"), Commit("feature: add cache")>> }

\* what the host may answer to get_pulls(...)
HostPullLists == {<<>>, <<PullRequest("fix: menu", "")>>}

Locals0 ==
    /\ changelog = Unset
    /\ previous_version = Unset /\ previous_date = NoDate
    /\ entries = <<>>
    /\ new_version = Unset /\ new_entry = Unset /\ updated_changelog = Unset

Init ==
    /\ pc = "start"
    /\ dry_run \in BOOLEAN /\ release \in BOOLEAN
    /\ use_commits \in BOOLEAN /\ use_pull_requests \in BOOLEAN
    /\ entry_position \in ChangelogEntryPosition \cup {UnknownPosition}
    /\ file \in InitialFiles
    /\ host_commits = <<>> /\ host_pulls = <<>> /\ published = <<>>
    /\ Locals0
    /\ calls = <<>> /\ result = Unset /\ runs = 0 /\ now = 1

\* lines 399-404 and 409-411: the file is fetched; when that fails a dry run
\* returns True and any other run goes on to create the file
GetContents ==
    /\ pc = "start"
    /\ calls' = Append(calls, Call("get_contents", file.exists))
    /\ changelog' = IF file.exists THEN file.text ELSE changelog
    /\ pc' = IF file.exists THEN "parse" ELSE IF dry_run THEN "done" ELSE "create_file"
    /\ result' = IF ~file.exists /\ dry_run THEN "True" ELSE result
    /\ UNCHANGED <<dry_run, release, use_commits, use_pull_requests, entry_position,
                   file, host_commits, host_pulls, published, previous_version,
                   previous_date, entries, new_version, new_entry, updated_changelog,
                   runs, now>>

\* lines 405-408 and 413, with _create_changelog_file: the host accepts the new
\* file or not; after a creation the file is fetched again and the run
\* returns False
CreateChangelogFile ==
    /\ pc = "create_file"
    /\ \E ok \in BOOLEAN :
          /\ calls' = IF ok THEN calls \o <<Call("create_file", TRUE), Call("get_contents", TRUE)>>
                      ELSE Append(calls, Call("create_file", FALSE))
          /\ file' = IF ok THEN [exists |-> TRUE, text |-> new_changelog_text(Clock(now))]
                     ELSE file
    /\ result' = "False"
    /\ pc' = "done"
    /\ UNCHANGED <<dry_run, release, use_commits, use_pull_requests, entry_position,
                   host_commits, host_pulls, published, changelog, previous_version,
                   previous_date, entries, new_version, new_entry, updated_changelog,
                   runs, now>>

\* lines 421-425
GetPreviousReleaseInfo ==
    /\ pc = "parse"
    /\ previous_version' = get_previous_release_info(changelog)[1]
    /\ previous_date' = get_previous_release_info(changelog)[2]
    /\ pc' = IF previous_version' = None THEN "done" ELSE "collect"
    /\ result' = IF previous_version' = None THEN "False" ELSE result
    /\ UNCHANGED <<dry_run, release, use_commits, use_pull_requests, entry_position,
                   file, host_commits, host_pulls, published, changelog, entries,
                   new_version, new_entry, updated_changelog, calls, runs, now>>

\* what line 434 and the test of line 435 make of the collected lists: a list
\* that was never collected is an unbound local and the run ends in
\* UnboundLocalError; no entry at all ends every run but a dry run with False
collect_outcome(found) ==
    IF ~(use_commits /\ use_pull_requests) THEN [pc |-> "done", result |-> "raised"]
    ELSE IF found = <<>> /\ ~dry_run THEN [pc |-> "done", result |-> "False"]
    ELSE [pc |-> "bump", result |-> Unset]

\* lines 427-437
Collect ==
    /\ pc = "collect"
    /\ \E hc \in HostHistories, hp \in HostPullLists :
          /\ host_commits' = IF use_commits THEN hc ELSE <<>>
          /\ host_pulls' = IF use_pull_requests THEN hp ELSE <<>>
    /\ calls' = calls \o (IF use_commits THEN <<Call("get_commits", TRUE)>> ELSE <<>>)
                      \o (IF use_pull_requests THEN <<Call("get_pulls", TRUE)>> ELSE <<>>)
    /\ LET found == get_commits(host_commits') \o get_pull_requests(host_pulls')
       IN /\ entries' = IF use_commits /\ use_pull_requests THEN found ELSE entries
          /\ pc' = collect_outcome(found).pc
          /\ result' = collect_outcome(found).result
    /\ UNCHANGED <<dry_run, release, use_commits, use_pull_requests, entry_position,
                   file, published, changelog, previous_version, previous_date,
                   new_version, new_entry, updated_changelog, runs, now>>

\* line 440
BumpVersion ==
    /\ pc = "bump"
    /\ new_version' = bump_version(previous_version, entries)
    /\ pc' = "render"
    /\ UNCHANGED <<dry_run, release, use_commits, use_pull_requests, entry_position,
                   file, host_commits, host_pulls, published, changelog,
                   previous_version, previous_date, entries, new_entry,
                   updated_changelog, calls, result, runs, now>>

\* line 443: custom_date is datetime.now().isoformat(timespec='seconds')
CreateNewEntry ==
    /\ pc = "render"
    /\ new_entry' = create_new_entry(new_version, entries, isoformat(Clock(now)))
    /\ pc' = "merge"
    /\ UNCHANGED <<dry_run, release, use_commits, use_pull_requests, entry_position,
                   file, host_commits, host_pulls, published, changelog,
                   previous_version, previous_date, entries, new_version,
                   updated_changelog, calls, result, runs, now>>

\* line 446
CreateUpdatedChangelog ==
    /\ pc = "merge"
    /\ updated_changelog' = create_updated_changelog(new_entry, changelog, entry_position)
    /\ pc' = "publish"
    /\ UNCHANGED <<dry_run, release, use_commits, use_pull_requests, entry_position,
                   file, host_commits, host_pulls, published, changelog,
                   previous_version, previous_date, entries, new_version, new_entry,
                   calls, result, runs, now>>

\* a run that goes on to the release whatever update_file answered
publish_outcome_ignored(ok) == [pc |-> "release", result |-> Unset]

\* lines 456-457: a failed publish ends the run with False
publish_outcome(ok) ==
    IF ok THEN [pc |-> "release", result |-> Unset]
    ELSE [pc |-> "done", result |-> "False"]

\* a publish step that does not look at the dry-run flag
PublishNewChangelog_dry_run_ignored ==
    /\ pc = "publish"
    /\ \E ok \in BOOLEAN :
          /\ calls' = Append(calls, Call("update_file", ok))
          /\ file' = IF ok THEN [exists |-> TRUE, text |-> updated_changelog] ELSE file
          /\ published' = IF ok THEN Append(published, <<new_version, Clock(now)>>)
                          ELSE published
          /\ pc' = publish_outcome(ok).pc
          /\ result' = publish_outcome(ok).result
    /\ UNCHANGED <<dry_run, release, use_commits, use_pull_requests, entry_position,
                   host_commits, host_pulls, changelog, previous_version,
                   previous_date, entries, new_version, new_entry, updated_changelog,
                   runs, now>>

\* lines 449-457, with _publish_new_changelog: a dry run logs and returns True;
\* otherwise update_file succeeds, and the file holds the merged text, or fails
PublishNewChangelog ==
    /\ pc = "publish"
    /\ \/ /\ dry_run
          /\ pc' = "done" /\ result' = "True"
          /\ UNCHANGED <<file, calls, published>>
       \/ /\ ~dry_run
          /\ \E ok \in BOOLEAN :
                /\ calls' = Append(calls, Call("update_file", ok))
                /\ file' = IF ok THEN [exists |-> TRUE, text |-> updated_changelog] ELSE file
                /\ published' = IF ok THEN Append(published, <<new_version, Clock(now)>>)
                                ELSE published
                /\ pc' = publish_outcome(ok).pc
                /\ result' = publish_outcome(ok).result
    /\ UNCHANGED <<dry_run, release, use_commits, use_pull_requests, entry_position,
                   host_commits, host_pulls, changelog, previous_version,
                   previous_date, entries, new_version, new_entry, updated_changelog,
                   runs, now>>

\* lines 460-465, with _create_new_release
CreateNewRelease ==
    /\ pc = "release"
    /\ \/ /\ ~release
          /\ result' = "True"
          /\ UNCHANGED calls
       \/ /\ release
          /\ \E ok \in BOOLEAN :
                /\ calls' = Append(calls, Call("create_git_release", ok))
                /\ result' = IF ok THEN "True" ELSE "False"
    /\ pc' = "done"
    /\ UNCHANGED <<dry_run, release, use_commits, use_pull_requests, entry_position,
                   file, host_commits, host_pulls, published, changelog,
                   previous_version, previous_date, entries, new_version, new_entry,
                   updated_changelog, runs, now>>

FileWritten ==
    \E i \in 1..Len(calls) : calls[i].name \in {"create_file", "update_file"} /\ calls[i].ok

\* the program is started again on the repository a run has written to, at a
\* later time
NextRun ==
    /\ pc = "done"
    /\ FileWritten
    /\ runs < MaxRuns
    /\ runs' = runs + 1
    /\ now' = now + 1
    /\ pc' = "start"
    /\ calls' = <<>> /\ result' = Unset
    /\ host_commits' = <<>> /\ host_pulls' = <<>>
    /\ changelog' = Unset
    /\ previous_version' = Unset /\ previous_date' = NoDate
    /\ entries' = <<>>
    /\ new_version' = Unset /\ new_entry' = Unset /\ updated_changelog' = Unset
    /\ UNCHANGED <<dry_run, release, use_commits, use_pull_requests, entry_position,
                   file, published>>

Next ==
    \/ GetContents
    \/ CreateChangelogFile
    \/ GetPreviousReleaseInfo
    \/ Collect
    \/ BumpVersion
    \/ CreateNewEntry
    \/ CreateUpdatedChangelog
    \/ PublishNewChangelog
    \/ CreateNewRelease
    \/ NextRun

Spec == Init /\ [][Next]_vars

(***************************************************************************)
(* Properties of the runs (Spec)                                           *)
(***************************************************************************)
Called(name) == \E i \in 1..Len(calls) : calls[i].name = name

\* C6 as claimed: once a run has published an entry, the marker the next run
\* parses is the version and the timestamp of the entry published last.
C6_MostRecentMarker ==
    pc = "collect" /\ published # <<>> =>
        LET last == published[Len(published)]
            t == ResultTriple(last[1])
        IN /\ previous_version = format_version(t[1], t[2], t[3])
           /\ previous_date = last[2]

\* C9 as claimed: with an entry position that is none of the four values the
\* run makes no update_file and no create_git_release call and ends in failure.
C9_UnknownPositionFatal ==
    entry_position \notin ChangelogEntryPosition =>
        /\ ~Called("update_file")
        /\ ~Called("create_git_release")
        /\ pc = "done" /\ updated_changelog # Unset => result = "False"

\* the collaborator calls whose failure is fatal
FatalFailure(c) == c.name \in {"create_file", "update_file", "create_git_release"} /\ ~c.ok

Collected == Called("get_pulls") /\ use_commits /\ use_pull_requests

\* C10: in a run, a failed create_file, update_file or create_git_release is
\* the last collaborator call and the run returns False; a run that finds no
\* release marker, or collects no item outside a dry run, returns False having
\* made no call after the one that showed it; and create_git_release is only
\* ever called right after an update_file of the same run that succeeded.
C10_HaltOnFatalError ==
    /\ \A i \in 1..Len(calls) :
          FatalFailure(calls[i]) => i = Len(calls) /\ pc = "done" /\ result = "False"
    /\ \A i \in 1..Len(calls) :
          calls[i].name = "create_git_release" =>
              i > 1 /\ calls[i - 1] = Call("update_file", TRUE)
    /\ previous_version = None =>
          pc = "done" /\ result = "False" /\ calls = <<Call("get_contents", TRUE)>>
    /\ Collected /\ entries = <<>> /\ ~dry_run =>
          /\ pc = "done" /\ result = "False"
          /\ calls[Len(calls)].name = "get_pulls"
          /\ ~Called("update_file") /\ ~Called("create_git_release")

\* C10 witness: a run configured to release whose publish failed has ended in
\* failure with update_file as its last call
C10_Witness ==
    /\ pc = "done" /\ release /\ result = "False"
    /\ calls # <<>>
    /\ calls[Len(calls)] = Call("update_file", FALSE)

(***************************************************************************)
(* main.py: the collectors, the entry and update_changelog                 *)
(***************************************************************************)
\* a pull request and a commit with the fields main.py reads
MainPull(title, body, number, merged_at) ==
    [kind |-> "PullRequest", title |-> title, body |-> body,
     number |-> number, merged_at |-> merged_at]

MainCommit(message, sha) == [kind |-> "Commit", message |-> message, sha |-> sha]

\* a > b on datetimes
RECURSIVE Later(_, _)
Later(a, b) ==
    IF a = <<>> THEN FALSE
    ELSE IF Head(a) # Head(b) THEN Head(a) > Head(b)
    ELSE Later(Tail(a), Tail(b))

\* get_merged_prs, lines 72-81: the closed pull requests merged after the
\* release date, in the order the host lists them
get_merged_prs(pulls, release_date) ==
    LET merged_since(pr) == pr.merged_at # NoDate /\ Later(pr.merged_at, release_date)
    IN SelectSeq(pulls, merged_since)

\* get_commits_since, lines 60-69: every commit that is no merge commit
get_commits_since(commits) ==
    LET no_merge(commit) == ~startswith(commit.message, "Merge")
    IN SelectSeq(commits, no_merge)

CHANGELOG_INITIAL_CONTENT ==
    "# Changelog\n\nAll notable changes to this project will be documented in this file.\n\nThe format is based on [Keep a Changelog](https://keepachangelog.com/en/1.0.0/), and this project adheres to [Semantic Versioning](https://semver.org/spec/v2.0.0.html).\n\n"

MAX_COMMIT_HEADER_LENGTH == 100

\* dt.strftime('%Y-%m-%d')
strftime_date(dt) == pad(dt[1], 4) \o "-" \o pad(dt[2], 2) \o "-" \o pad(dt[3], 2)

\* lines 252-253
RECURSIVE main_pr_lines(_)
main_pr_lines(prs) ==
    IF prs = <<>> THEN ""
    ELSE "- " \o Head(prs).title \o " (#" \o str(Head(prs).number) \o ")\n"
         \o main_pr_lines(Tail(prs))

\* lines 258-261: the first line of the message, cut at the maximal length
main_commit_title(commit) ==
    LET commit_title == splitlines(commit.message)[1]
    IN IF Len(commit_title) > MAX_COMMIT_HEADER_LENGTH
       THEN SubSeq(commit_title, 1, MAX_COMMIT_HEADER_LENGTH) \o "..."
       ELSE commit_title

RECURSIVE main_commit_lines(_)
main_commit_lines(commits) ==
    IF commits = <<>> THEN ""
    ELSE "- " \o main_commit_title(Head(commits)) \o " ("
         \o SubSeq(Head(commits).sha, 1, 7) \o ")\n"
         \o main_commit_lines(Tail(commits))

\* lines 251-263
main_changelog_entry(version, merged_prs, commits, today) ==
    "## " \o version \o " (" \o strftime_date(today) \o ")\n"
    \o main_pr_lines(merged_prs) \o main_commit_lines(commits)

\* update_changelog, lines 125-137: the entry and an empty line go in front of
\* the first header line, or after the last line when there is no header
main_updated_content(text, entry) ==
    LET lines == splitlines(text)
        h == first_header(lines)
        insert_index == IF h >= 0 THEN h ELSE Len(lines)
    IN join("\n", SubSeq(lines, 1, insert_index) \o <<entry, "">>
                  \o SubSeq(lines, insert_index + 1, Len(lines)))

\* update_changelog, line 153: the text of the file created when the update failed
main_created_content(entry) ==
    CHANGELOG_INITIAL_CONTENT \o "\n" \o entry
    \o "\n\n## Initial Release\n\n### Added\n\n- Initial release\n"

(***************************************************************************)
(* SpecMain: runs of the script main.py                                    *)
(***************************************************************************)
MainInitialFiles == {
    NoFile,
    [exists |-> TRUE, text |-> "# Changelog\n"],
    [exists |-> TRUE, text |-> "# Changelog\n\n## v1.0.0 (2024-01-01)\n- prev (#1)\n"],
    [exists |-> TRUE, text |-> "## Unreleased\n"],
    [exists |-> TRUE, text |-> "## v1.2 (2024-01-01)\n"],
    [exists |-> TRUE, text |-> "## v2.0.0 (2024-02-30)\n"] }

\* what the host may answer to get_pulls(state="closed", base=RELEASE_BRANCH)
MainHostPulls == {
    <<>>,
    <<MainPull("Feat: dark mode", "", 7, Clock(1))>>,
    <<MainPull("fix: menu", "", 8, NoDate),
      MainPull("breaking change: drop API", "", 9, Clock(1)),
      MainPull("fix: old", "", 5, Clock(0))>> }

\* what the host may answer to get_commits(since, sha)
MainHostCommits == {
    <<>>,
    <<MainCommit("fix: null check", "a1b2c3d4e5f6")>>,
    <<MainCommit("Merge branch dev", "0f0f0f0f0f0f"),
      MainCommit("feature: add cache\n\ndetails", "123456789abc")>> }

\* the state at "if __name__ == '__main__'", the arguments parsed: --pr is a
\* store_true option with default True, so args.pr is True with or without it
InitMain ==
    /\ pc = "main"
    /\ dry_run \in BOOLEAN
    /\ use_commits \in BOOLEAN
    /\ use_pull_requests = TRUE
    /\ release = FALSE
    /\ entry_position = ABOVE_PREVIOUS
    /\ file \in MainInitialFiles
    /\ host_commits = <<>> /\ host_pulls = <<>> /\ published = <<>>
    /\ Locals0
    /\ calls = <<>> /\ result = Unset /\ runs = 0 /\ now = 1

\* lines 218-220
MainAuthenticate ==
    /\ pc = "main"
    /\ \E ok \in BOOLEAN :
          /\ calls' = Append(calls, Call("get_repo", ok))
          /\ pc' = IF ok THEN "main_release_info" ELSE "main_done"
          /\ result' = IF ok THEN result ELSE "exit(0)"
    /\ UNCHANGED <<dry_run, release, use_commits, use_pull_requests, entry_position,
                   file, host_commits, host_pulls, published, changelog,
                   previous_version, previous_date, entries, new_version, new_entry,
                   updated_changelog, runs, now>>

\* lines 222-228, with get_latest_release
MainGetLatestRelease ==
    /\ pc = "main_release_info"
    /\ calls' = Append(calls, Call("get_contents", file.exists))
    /\ LET release_info == get_latest_release(file)
       IN /\ previous_version' = IF release_info = <<>> THEN previous_version
                                 ELSE release_info[1]
          /\ previous_date' = IF release_info = <<>> THEN previous_date
                              ELSE release_info[2]
          /\ pc' = IF release_info = <<>> THEN "main_done" ELSE "main_prs"
          /\ result' = IF release_info = <<>> THEN "exit(1)" ELSE result
    /\ changelog' = IF file.exists THEN file.text ELSE changelog
    /\ UNCHANGED <<dry_run, release, use_commits, use_pull_requests, entry_position,
                   file, host_commits, host_pulls, published, entries, new_version,
                   new_entry, updated_changelog, runs, now>>

\* lines 231-235, with get_merged_prs: args.pr holds in every run, so the
\* pull requests are always fetched; an error of get_pulls is not caught
MainGetMergedPrs ==
    /\ pc = "main_prs"
    /\ use_pull_requests
    /\ \E ok \in BOOLEAN, hp \in MainHostPulls :
          /\ calls' = Append(calls, Call("get_pulls", ok))
          /\ host_pulls' = IF ok THEN hp ELSE host_pulls
          /\ entries' = IF ok THEN entries \o get_merged_prs(hp, previous_date)
                        ELSE entries
          /\ pc' = IF ok THEN "main_commits" ELSE "main_done"
          /\ result' = IF ok THEN result ELSE "GithubException"
    /\ UNCHANGED <<dry_run, release, use_commits, use_pull_requests, entry_position, file,
                   host_commits, published, changelog, previous_version,
                   previous_date, new_version, new_entry, updated_changelog, runs, now>>

\* lines 237-241, with get_commits_since: an error of get_commits is caught and
\* gives the empty list
MainGetCommitsSince ==
    /\ pc = "main_commits"
    /\ \/ /\ use_commits
          /\ \E ok \in BOOLEAN, hc \in MainHostCommits :
                /\ calls' = Append(calls, Call("get_commits", ok))
                /\ host_commits' = IF ok THEN hc ELSE <<>>
                /\ entries' = entries \o get_commits_since(host_commits')
       \/ /\ ~use_commits
          /\ UNCHANGED <<calls, host_commits, entries>>
    /\ pc' = "main_version"
    /\ UNCHANGED <<dry_run, release, use_commits, use_pull_requests, entry_position,
                   file, host_pulls, published, changelog, previous_version,
                   previous_date, new_version, new_entry, updated_changelog, result,
                   runs, now>>

\* lines 244-249
MainCalculateNewVersion ==
    /\ pc = "main_version"
    /\ new_version' = calculate_new_version(previous_version, entries)
    /\ pc' = IF new_version' \in {None, ""} THEN "main_done" ELSE "main_entry"
    /\ result' = IF new_version' \in {None, ""} THEN "exit(3)" ELSE result
    /\ UNCHANGED <<dry_run, release, use_commits, use_pull_requests, entry_position,
                   file, host_commits, host_pulls, published, changelog,
                   previous_version, previous_date, entries, new_entry,
                   updated_changelog, calls, runs, now>>

\* the run's merged_prs and commits
main_merged_prs == get_merged_prs(host_pulls, previous_date)
main_commits == get_commits_since(host_commits)

\* lines 251-269: the two loops read merged_prs and commits, names that are
\* bound only under "if args.pr" and "if args.commit"; an unbound one raises
\* NameError.  After the entry a dry run exits with status 0.
MainCreateEntry ==
    /\ pc = "main_entry"
    /\ IF use_pull_requests /\ use_commits
       THEN /\ new_entry' = main_changelog_entry(new_version, main_merged_prs,
                                                 main_commits, Clock(now))
            /\ pc' = IF dry_run THEN "main_done" ELSE "main_update"
            /\ result' = IF dry_run THEN "exit(0)" ELSE result
       ELSE /\ new_entry' = new_entry
            /\ pc' = "main_done"
            /\ result' = "raised"
    /\ UNCHANGED <<dry_run, release, use_commits, use_pull_requests, entry_position,
                   file, host_commits, host_pulls, published, changelog,
                   previous_version, previous_date, entries, new_version,
                   updated_changelog, calls, runs, now>>

\* lines 271-273, with update_changelog(changelog_entry): the file is fetched
\* and updated; when either call fails the script tries to create the file
\* instead, and when that fails too it exits with status 4
MainUpdateChangelog ==
    /\ pc = "main_update"
    /\ \/ /\ file.exists
          /\ updated_changelog' = main_updated_content(file.text, new_entry)
          /\ calls' = calls \o <<Call("get_contents", TRUE), Call("update_file", TRUE)>>
          /\ file' = [exists |-> TRUE, text |-> updated_changelog']
          /\ published' = Append(published, <<new_version, Clock(now)>>)
          /\ pc' = "main_release"
          /\ result' = result
       \/ /\ \E fetched \in {b \in BOOLEAN : b => file.exists}, created \in BOOLEAN :
                /\ calls' = calls
                      \o (IF fetched
                          THEN <<Call("get_contents", TRUE), Call("update_file", FALSE)>>
                          ELSE <<Call("get_contents", FALSE)>>)
                      \o <<Call("create_file", created)>>
                /\ updated_changelog' = IF fetched
                                        THEN main_updated_content(file.text, new_entry)
                                        ELSE updated_changelog
                /\ file' = IF created
                           THEN [exists |-> TRUE, text |-> main_created_content(new_entry)]
                           ELSE file
                /\ published' = IF created
                                THEN Append(published, <<new_version, Clock(now)>>)
                                ELSE published
                /\ pc' = IF created THEN "main_release" ELSE "main_done"
                /\ result' = IF created THEN result ELSE "exit(4)"
    /\ UNCHANGED <<dry_run, release, use_commits, use_pull_requests, entry_position,
                   host_commits, host_pulls, changelog, previous_version,
                   previous_date, entries, new_version, new_entry, runs, now>>

\* lines 275-277, with create_release: its result is not looked at
MainCreateRelease ==
    /\ pc = "main_release"
    /\ \E ok \in BOOLEAN : calls' = Append(calls, Call("create_git_release", ok))
    /\ pc' = "main_done"
    /\ result' = "Done."
    /\ UNCHANGED <<dry_run, release, use_commits, use_pull_requests, entry_position,
                   file, host_commits, host_pulls, published, changelog,
                   previous_version, previous_date, entries, new_version, new_entry,
                   updated_changelog, runs, now>>

NextMain ==
    \/ MainAuthenticate
    \/ MainGetLatestRelease
    \/ MainGetMergedPrs
    \/ MainGetCommitsSince
    \/ MainCalculateNewVersion
    \/ MainCreateEntry
    \/ MainUpdateChangelog
    \/ MainCreateRelease

SpecMain == InitMain /\ [][NextMain]_vars

(***************************************************************************)
(* SpecPrograms: a run of either program                                   *)
(***************************************************************************)
InitPrograms == Init \/ InitMain

NextPrograms == Next \/ NextMain

SpecPrograms == InitPrograms /\ [][NextPrograms]_vars

(***************************************************************************)
(* Properties of the runs of both programs (SpecPrograms)                  *)
(***************************************************************************)
\* the collaborator calls that change the repository
MutatingCalls == {"create_file", "update_file", "create_git_release"}

\* C11: in a run with the dry-run flag set, of Changelogger or of main.py, and
\* whatever the repository holds, no create_file, update_file or
\* create_git_release call is made: the file on the host is the one the run
\* started with and nothing is published.
C11_DryRunNoSideEffect ==
    dry_run =>
        /\ \A i \in 1..Len(calls) : calls[i].name \notin MutatingCalls
        /\ file \in InitialFiles \cup MainInitialFiles
        /\ published = <<>>
        /\ runs = 0

\* C11 witness: a dry run of Changelogger has rendered and merged an entry, and
\* has returned True at the publish step
C11_Witness ==
    /\ dry_run /\ pc = "done" /\ result = "True"
    /\ updated_changelog # Unset
    /\ entries # <<>>

(***************************************************************************)
(* Further properties of the runs of Changelogger (Spec)                   *)
(***************************************************************************)
\* the run found no changelog file when it started
FileWasAbsent == calls # <<>> /\ calls[1] = Call("get_contents", FALSE)

\* the header lines of a document
HeaderLines(text) == SelectSeq(splitlines(text), is_header)

\* C12 as claimed: a run that finds no changelog creates, unless it is a dry
\* run, a document with exactly one header, the initial-release header with
\* the current timestamp, bumps no version, creates no release and returns
\* True; a dry run returns True and creates nothing.
C12_BootstrapRecovers ==
    pc = "done" /\ FileWasAbsent =>
        IF dry_run
        THEN result = "True" /\ Len(calls) = 1 /\ ~file.exists
        ELSE Called("create_file") /\ calls[2].ok =>
                /\ file.exists
                /\ HeaderLines(file.text)
                      = <<"## [initial release] - (" \o isoformat(Clock(now)) \o ")">>
                /\ new_version = Unset
                /\ ~Called("update_file") /\ ~Called("create_git_release")
                /\ result = "True"

(***************************************************************************)
(* SpecLine: the release-line parsers as functions of one line             *)
(***************************************************************************)
\* the parts a line is put together from: mark, version, spaces, dash, a
\* parenthesized stamp, and what follows it
GoodMarks == {"##", "## ", "##   "}
LineMarks == GoodMarks \cup {"# ", ""}

GoodVersions == {"v1.2.3", "v2.0.0"}
LineVersions == GoodVersions \cup {"1.2.3", ""}

LineGaps == {"", " ", "    "}

Dash == "- "
LineDashes == {"", Dash}

GoodDates == {"2021-12-31", "2022-01-01"}
GoodDateTimes == {"2021-12-31T00:00:00", "2022-01-01T10:30:59"}
LineStamps == GoodDates \cup GoodDateTimes
              \cup {"31-12-2021", "2021-13-01", "2021-02-30", "2021-12-31T24:00:00"}

LineTails == {"", " extra"}

Parenthesized(t) == "(" \o t \o ")"

Lines ==
    {m \o v \o g \o d \o t \o e :
        m \in LineMarks, v \in LineVersions, g \in LineGaps, d \in LineDashes,
        t \in {""} \cup {Parenthesized(x) : x \in LineStamps}, e \in LineTails}

InitLine ==
    /\ UnitConfig
    /\ pc = "unit"
    /\ entry_position = ABOVE_PREVIOUS
    /\ changelog \in Lines
    /\ file = [exists |-> TRUE, text |-> changelog]
    /\ previous_version = Unset /\ previous_date = NoDate
    /\ entries = <<>>
    /\ new_version = Unset /\ new_entry = Unset /\ updated_changelog = Unset
    /\ now = 0

\* main.parse_release_line(line): the dictionary's two values, None, or the
\* ValueError of strptime
UnitParseReleaseLine ==
    /\ pc = "unit"
    /\ LET parsed == parse_release_line(changelog)
       IN /\ previous_version' = IF Len(parsed) = 2 THEN parsed[1] ELSE None
          /\ previous_date' = IF Len(parsed) = 2 THEN parsed[2] ELSE NoDate
          /\ result' = IF parsed = <<"ValueError">> THEN "raised" ELSE result
    /\ pc' = "parse_release_line"
    /\ UNCHANGED <<dry_run, release, use_commits, use_pull_requests, entry_position,
                   file, host_commits, host_pulls, published, changelog, entries,
                   new_version, new_entry, updated_changelog, calls, runs, now>>

NextLine == UnitParseReleaseLine \/ UnitGetPreviousReleaseInfo

SpecLine == InitLine /\ [][NextLine]_vars

(***************************************************************************)
(* Properties of the line parsers (SpecLine)                               *)
(***************************************************************************)
\* the line is mark, version, spaces, the dash d and the stamp t in parentheses
HeaderLine(line, v, d, t) ==
    \E m \in GoodMarks, g \in LineGaps : line = m \o v \o g \o d \o Parenthesized(t)

\* the datetime a stamp stands for, a date-only stamp being midnight of its day
StampValue(t) ==
    <<int(SubSeq(t, 1, 4)), int(SubSeq(t, 6, 7)), int(SubSeq(t, 9, 10)),
      IF Len(t) = 10 THEN 0 ELSE int(SubSeq(t, 12, 13)),
      IF Len(t) = 10 THEN 0 ELSE int(SubSeq(t, 15, 16)),
      IF Len(t) = 10 THEN 0 ELSE int(SubSeq(t, 18, 19))>>

\* C13 as claimed: parse_release_line never raises; for a line made of ##,
\* optional spaces, a v-version, optional spaces and a parenthesized calendar
\* date, with nothing after it, it returns that version and the date at
\* midnight, and for every other line it returns None.
C13_ParseReleaseLineTotal ==
    pc = "parse_release_line" =>
        /\ result # "raised"
        /\ IF \E v \in GoodVersions, t \in GoodDates : HeaderLine(changelog, v, "", t)
           THEN \E v \in GoodVersions, t \in GoodDates :
                    /\ HeaderLine(changelog, v, "", t)
                    /\ previous_version = v
                    /\ previous_date = StampValue(t)
           ELSE previous_version = None /\ previous_date = NoDate

Qualifies(commit) ==
    \E k \in 1..Len(ChangelogEntryType_all) :
        Contains(lower(commit.message), ChangelogEntryType_all[k])

\* C15 as claimed: the collected list is the host's commits that hold a signal
\* keyword, each once and in the host's order, and the rendered entry is one
\* header line followed by one list-item line for each of them.
C15_OneLinePerItem ==
    LET qualifying == SelectSeq(host_commits, Qualifies)
    IN /\ Collected => entries = qualifying
       /\ Collected /\ new_entry # Unset =>
             /\ Len(splitlines(new_entry)) = 1 + Len(qualifying)
             /\ \A i \in 1..Len(qualifying) :
                   splitlines(new_entry)[i + 1]
                       = "- " \o splitlines(qualifying[i].message)[1]

\* C16 as claimed: whatever the two source options are, no run of either
\* program ends by reading a list it never collected, and the items of a run
\* come from enabled sources only.
C16_TogglesNeverCrash ==
    /\ result # "raised"
    /\ \A i \in 1..Len(entries) :
          /\ entries[i].kind = "Commit" => use_commits
          /\ entries[i].kind = "PullRequest" => use_pull_requests

====
